---- MODULE Spec2Model ----
(***************************************************************************)
(* go-etcd-cron: the Cron scheduler loop (cron.go), its public operations, *)
(* the firing workers and the coordinator mutex they take (etcd.go).       *)
(*                                                                         *)
(* Time is counted in whole seconds; the zero time.Time is 0 and the clock *)
(* starts at 1.  Goroutines interleave at the granularity of the           *)
(* statements that read or write shared memory (c.entries, c.running, the  *)
(* three unbuffered channels, the Entry fields).                           *)
(***************************************************************************)
EXTENDS Integers, Sequences, FiniteSets, TLC

\* ------------------------------------------------------------------ bounds
MaxTime == 3
MaxEntries == 2
MaxRaceEntries == 3
MaxCohortEntries == 2
MaxRaceTime == 2
MaxCohortTime == 2
MaxKeyEntries == 3
MaxStopEntries == 1
MaxCallEntries == 1
MaxCallTime == 2

\* ------------------------------------------------------- program constants
\* now.AddDate(10, 0, 0): the far-future wake-up of an idle loop
TenYears == 1000
\* the zero time.Time
ZeroTime == 0

Crons == {1, 2}
Threads == {1, 2}

\* Job names, as sequences of characters.  The first two differ as names
\* and share one canonical name.
NameAB == <<"a", "_", "b">>
NameAdashB == <<"A", "-", "B">>
Names == {NameAB, NameAdashB}

\* The schedules of the model: every second, every even second, never.
Scheds == {"sec", "even", "never"}

VARIABLES clock, running, entries, ent, loop, th, workers, held,
          delRaced, deleted

vars == <<clock, running, entries, ent, loop, th, workers, held,
          delRaced, deleted>>

\* ----------------------------------------------------------------- helpers
Max(a, b) == IF a >= b THEN a ELSE b

Range(s) == {s[i] : i \in 1..Len(s)}

\* Schedule.Next(t): the next activation strictly after t, or the zero time.
ScheduleNext(s, t) ==
    CASE s = "sec" -> t + 1
      [] s = "even" -> ((t \div 2) + 1) * 2
      [] OTHER -> ZeroTime

\* strings.ToLower on the characters of the model
ToLower(ch) ==
    CASE ch = "A" -> "a"
      [] ch = "B" -> "b"
      [] OTHER -> ch

IsLow(ch) == ch \in {"a", "b"}
IsNum(ch) == ch \in {"1", "2"}

\* nonAlphaNumerical.ReplaceAllString(..., "_"): [^a-z0-9_] becomes "_"
ReplaceNonAlnum(ch) == IF IsLow(ch) \/ IsNum(ch) \/ ch = "_" THEN ch ELSE "_"

\* strcase.ToSnake on a lower-case string: a delimiter is written between a
\* letter and a digit, and " ", "_", "-", "." become the delimiter.
RECURSIVE ToSnakeFrom(_, _)
ToSnakeFrom(s, i) ==
    IF i > Len(s) THEN <<>>
    ELSE LET v == s[i]
             boundary == /\ i + 1 <= Len(s)
                         /\ \/ IsLow(v) /\ IsNum(s[i + 1])
                            \/ IsNum(v) /\ IsLow(s[i + 1])
             out == IF boundary THEN <<v, "_">>
                    ELSE IF v \in {" ", "_", "-", "."} THEN <<"_">>
                    ELSE <<v>>
         IN out \o ToSnakeFrom(s, i + 1)

\* Mutant of canonicalName: the name is used as it is.
canonicalNameRaw(name) == name

canonicalName(name) ==
    ToSnakeFrom([i \in 1..Len(name) |-> ReplaceNonAlnum(ToLower(name[i]))], 1)

\* effective.Unix(): the model's instants are whole seconds
Unix(t) == t

\* fmt.Sprintf("etcd_cron/%s/%d", e.Job.canonicalName(), effective.Unix())
LockKey(name, effective) == <<"etcd_cron", canonicalName(name), Unix(effective)>>

\* Mutant of Less: the zero Next is compared like any other instant.
LessPlain(a, b) == ent[a].Next < ent[b].Next

\* byTime.Less on two entries
Less(a, b) ==
    IF ent[a].Next = ZeroTime THEN FALSE
    ELSE IF ent[b].Next = ZeroTime THEN TRUE
    ELSE ent[a].Next < ent[b].Next

\* sort.Sort(byTime(c.entries)): for lists this short the library runs an
\* insertion sort driven by Less.
RECURSIVE InsertByTime(_, _)
InsertByTime(sorted, e) ==
    IF sorted = <<>> THEN <<e>>
    ELSE IF Less(e, sorted[Len(sorted)])
         THEN Append(InsertByTime(SubSeq(sorted, 1, Len(sorted) - 1), e),
                     sorted[Len(sorted)])
         ELSE Append(sorted, e)

RECURSIVE SortFrom(_, _, _)
SortFrom(s, i, acc) ==
    IF i > Len(s) THEN acc ELSE SortFrom(s, i + 1, InsertByTime(acc, s[i]))

SortByTime(s) == SortFrom(s, 1, <<>>)

\* Mutant of entrySnapshot: the list holds the scheduler's own entries.
entrySnapshotShared(c) ==
    [i \in 1..Len(entries[c]) |->
        [id |-> entries[c][i],
         Name |-> ent[entries[c][i]].Name,
         Next |-> ent[entries[c][i]].Next,
         Prev |-> ent[entries[c][i]].Prev,
         shared |-> TRUE]]

\* Cron.entrySnapshot: a new Entry for every entry of the list, with the
\* fields of the entry copied into it.  shared tells whether a write to the
\* Entry writes the scheduler's entry id.
entrySnapshot(c) ==
    [i \in 1..Len(entries[c]) |->
        [id |-> entries[c][i],
         Name |-> ent[entries[c][i]].Name,
         Next |-> ent[entries[c][i]].Next,
         Prev |-> ent[entries[c][i]].Prev,
         shared |-> FALSE]]

\* Mutant of DeleteLoop: only the first entry of the name is dropped.
RECURSIVE DeleteLoopFirstOnly(_, _, _, _)
DeleteLoopFirstOnly(s, i, name, acc) ==
    IF i > Len(s) THEN acc
    ELSE IF ent[s[i]].Name = name /\ ~acc.found
         THEN DeleteLoopFirstOnly(s, i + 1, name,
                         [acc EXCEPT !.found = TRUE,
                                     !.removed = @ \cup {s[i]}])
         ELSE DeleteLoopFirstOnly(s, i + 1, name,
                         [acc EXCEPT !.updatedEntries = Append(@, s[i])])

\* Cron.GetJob: the first entry of the list with the name, 0 for nil.
GetJob(c, jobName) ==
    LET hits == {i \in 1..Len(entries[c]) : ent[entries[c][i]].Name = jobName}
    IN IF hits = {} THEN 0
       ELSE entries[c][CHOOSE i \in hits : \A j \in hits : i <= j]

\* strings.HasPrefix
HasPrefix(name, prefix) ==
    /\ Len(prefix) <= Len(name)
    /\ SubSeq(name, 1, Len(prefix)) = prefix

\* Cron.ListJobsByPrefix: the entries of the list whose name has the prefix,
\* in list order.
ListJobsByPrefix(c, prefix) ==
    LET has(e) == HasPrefix(ent[e].Name, prefix)
    IN SelectSeq(entries[c], has)

\* The loop of DeleteJob: entries whose name differs are kept, in order.
RECURSIVE DeleteLoop(_, _, _, _)
DeleteLoop(s, i, name, acc) ==
    IF i > Len(s) THEN acc
    ELSE IF ent[s[i]].Name = name
         THEN DeleteLoop(s, i + 1, name,
                         [acc EXCEPT !.found = TRUE,
                                     !.removed = @ \cup {s[i]}])
         ELSE DeleteLoop(s, i + 1, name,
                         [acc EXCEPT !.updatedEntries = Append(@, s[i])])

LoopActive(c) == loop[c].pc \notin {"off", "exited"}

IdleThread == [pc |-> "idle", cron |-> 0, e |-> 0, name |-> <<>>,
               updatedEntries |-> <<>>, removed |-> {}, ret |-> <<>>]

\* -------------------------------------------------------------------- Init
\* New(): no entries, not running, nothing on the channels.
Init ==
    /\ clock = 1
    /\ running = [c \in Crons |-> FALSE]
    /\ entries = [c \in Crons |-> <<>>]
    /\ ent = <<>>
    /\ loop = [c \in Crons |->
                 [pc |-> "off", now |-> ZeroTime, effective |-> ZeroTime,
                  timerAt |-> ZeroTime, iter |-> <<>>, idx |-> 0,
                  newEntry |-> 0, snap |-> <<>>]]
    /\ th = [t \in Threads |-> IdleThread]
    /\ workers = <<>>
    /\ held = {}
    /\ delRaced = [c \in Crons |-> FALSE]
    /\ deleted = {}

\* The wall clock advances.
Tick(max) ==
    /\ clock < max
    /\ clock' = clock + 1
    /\ UNCHANGED <<running, entries, ent, loop, th, workers, held,
                   delRaced, deleted>>

\* The loop of c is blocked: not started, waiting in its select, or ended.
LoopWaiting(c) == loop[c].pc \in {"off", "select", "exited"}

\* The wall clock advances while every loop is scheduled promptly: a loop
\* takes no time between two selects, and a timer that is due is received
\* before the next second.
TickPrompt(max) ==
    /\ \A c \in Crons :
          /\ LoopWaiting(c)
          /\ loop[c].pc = "select" => clock < loop[c].timerAt
    /\ Tick(max)

\* ------------------------------------------------------ public operations
\* Each operation is called by a thread t on the Cron c.  A thread that
\* blocks on a channel stays at the blocking statement until the rendezvous.

\* Cron.Schedule (AddJob with a parsable rhythm): the Entry is built and
\* c.running is read.
Schedule(c, t, name, sched, max) ==
    /\ th[t].pc = "idle"
    /\ Len(ent) < max
    /\ ent' = Append(ent, [Name |-> name, Sched |-> sched, Next |-> ZeroTime,
                           Prev |-> ZeroTime, phase |-> "new", cron |-> c])
    /\ th' = [th EXCEPT ![t] = [IdleThread EXCEPT
                 !.pc = IF running[c] THEN "add" ELSE "append",
                 !.cron = c, !.e = Len(ent) + 1]]
    /\ UNCHANGED <<clock, running, entries, loop, workers, held,
                   delRaced, deleted>>

\* Cron.Schedule, not running: c.entries = append(c.entries, entry)
ScheduleAppend(c, t) ==
    /\ th[t].pc = "append"
    /\ th[t].cron = c
    /\ entries' = [entries EXCEPT ![c] = Append(@, th[t].e)]
    /\ ent' = [ent EXCEPT ![th[t].e].phase =
                 IF loop[c].pc = "off" THEN "prestart"
                 ELSE IF loop[c].pc = "exited" THEN "stopped"
                 ELSE "racy"]
    /\ th' = [th EXCEPT ![t] = IdleThread]
    /\ UNCHANGED <<clock, running, loop, workers, held, delRaced, deleted>>

\* Cron.DeleteJob: the range over c.entries builds updatedEntries; the
\* error return leaves the list alone.
DeleteJob(c, t, jobName) ==
    /\ th[t].pc = "idle"
    /\ LET r == DeleteLoop(entries[c], 1, jobName,
                           [found |-> FALSE, updatedEntries |-> <<>>,
                            removed |-> {}])
       IN th' = [th EXCEPT ![t] =
                   IF r.found
                   THEN [IdleThread EXCEPT
                            !.pc = "delete", !.cron = c, !.name = jobName,
                            !.updatedEntries = r.updatedEntries,
                            !.removed = r.removed]
                   ELSE IdleThread]
    /\ UNCHANGED <<clock, running, entries, ent, loop, workers, held,
                   delRaced, deleted>>

\* Cron.DeleteJob: c.entries = updatedEntries; return nil
DeleteJobAssign(c, t) ==
    /\ th[t].pc = "delete"
    /\ th[t].cron = c
    /\ entries' = [entries EXCEPT ![c] = th[t].updatedEntries]
    /\ deleted' = deleted \cup th[t].removed
    /\ delRaced' = [delRaced EXCEPT ![c] = @ \/ LoopActive(c)]
    /\ th' = [th EXCEPT ![t] = IdleThread]
    /\ UNCHANGED <<clock, running, ent, loop, workers, held>>

\* Cron.Start: c.running = true; go c.run(ctx).  Start is one-shot.
Start(c, t) ==
    /\ th[t].pc = "idle"
    /\ loop[c].pc = "off"
    /\ running' = [running EXCEPT ![c] = TRUE]
    /\ loop' = [loop EXCEPT ![c].pc = "init"]
    /\ th' = [th EXCEPT ![t] = IdleThread]
    /\ UNCHANGED <<clock, entries, ent, workers, held, delRaced, deleted>>

\* Cron.Stop: the caller reaches the send on c.stop.
Stop(c, t) ==
    /\ th[t].pc = "idle"
    /\ th' = [th EXCEPT ![t] = [IdleThread EXCEPT !.pc = "stop", !.cron = c]]
    /\ UNCHANGED <<clock, running, entries, ent, loop, workers, held,
                   delRaced, deleted>>

\* Mutant of StopReturn: Stop drops the entries.
StopReturnDropsEntries(c, t) ==
    /\ th[t].pc = "stopped"
    /\ th[t].cron = c
    /\ running' = [running EXCEPT ![c] = FALSE]
    /\ entries' = [entries EXCEPT ![c] = <<>>]
    /\ th' = [th EXCEPT ![t] = IdleThread]
    /\ UNCHANGED <<clock, ent, loop, workers, held, delRaced, deleted>>

\* Mutant of StopReturn: Stop forgets c.running = false.
StopReturnStillRunning(c, t) ==
    /\ th[t].pc = "stopped"
    /\ th[t].cron = c
    /\ th' = [th EXCEPT ![t] = IdleThread]
    /\ UNCHANGED <<clock, running, entries, ent, loop, workers, held,
                   delRaced, deleted>>

\* Cron.Stop after the send was received: c.running = false
StopReturn(c, t) ==
    /\ th[t].pc = "stopped"
    /\ th[t].cron = c
    /\ running' = [running EXCEPT ![c] = FALSE]
    /\ th' = [th EXCEPT ![t] = IdleThread]
    /\ UNCHANGED <<clock, entries, ent, loop, workers, held,
                   delRaced, deleted>>

\* Cron.Entries: running, the caller reaches c.snapshot <- nil; otherwise
\* it returns c.entrySnapshot() itself.
Entries(c, t) ==
    /\ th[t].pc = "idle"
    /\ th' = [th EXCEPT ![t] =
                IF running[c]
                THEN [IdleThread EXCEPT !.pc = "snapshot", !.cron = c]
                ELSE [IdleThread EXCEPT !.pc = "got", !.cron = c,
                                        !.ret = entrySnapshot(c)]]
    /\ UNCHANGED <<clock, running, entries, ent, loop, workers, held,
                   delRaced, deleted>>

\* The caller of Entries uses the list it got and lets go of it: it reads
\* it (i = 0) or sets the Next of its i-th Entry to the zero time, which
\* reaches the scheduler's entry only when the Entry is shared with it.
EntriesUse(c, t) ==
    /\ th[t].pc \in {"got", "gotnil"}
    /\ th[t].cron = c
    /\ \E i \in 0..Len(th[t].ret) :
          ent' = IF i > 0 /\ th[t].ret[i].shared
                 THEN [ent EXCEPT ![th[t].ret[i].id].Next = ZeroTime]
                 ELSE ent
    /\ th' = [th EXCEPT ![t] = IdleThread]
    /\ UNCHANGED <<clock, running, entries, loop, workers, held,
                   delRaced, deleted>>

\* Cron.Entries: x := <-c.snapshot takes the nil that another caller is
\* sending on the same unbuffered channel, and Entries returns that nil.
EntriesTakeNil(c, t, u) ==
    /\ t # u
    /\ th[t].pc = "receive" /\ th[t].cron = c
    /\ th[u].pc = "snapshot" /\ th[u].cron = c
    /\ th' = [th EXCEPT ![t] = [IdleThread EXCEPT !.pc = "gotnil", !.cron = c],
                         ![u].pc = "receive"]
    /\ UNCHANGED <<clock, running, entries, ent, loop, workers, held,
                   delRaced, deleted>>

\* ------------------------------------------------------------ Cron.run
\* Mutant of RunInit: the loop starts without computing any Next.
RunInitNoNext(c) ==
    /\ loop[c].pc = "init"
    /\ loop' = [loop EXCEPT ![c].pc = "sort", ![c].now = clock]
    /\ UNCHANGED <<clock, running, entries, ent, th, workers, held,
                   delRaced, deleted>>

\* now := time.Now().Local(); every entry gets its first Next.
RunInit(c) ==
    /\ loop[c].pc = "init"
    /\ ent' = [i \in DOMAIN ent |->
                 IF i \in Range(entries[c])
                 THEN [ent[i] EXCEPT !.Next = ScheduleNext(ent[i].Sched, clock)]
                 ELSE ent[i]]
    /\ loop' = [loop EXCEPT ![c].pc = "sort", ![c].now = clock]
    /\ UNCHANGED <<clock, running, entries, th, workers, held,
                   delRaced, deleted>>

\* sort.Sort(byTime(c.entries))
RunSort(c) ==
    /\ loop[c].pc = "sort"
    /\ entries' = [entries EXCEPT ![c] = SortByTime(@)]
    /\ loop' = [loop EXCEPT ![c].pc = "effective"]
    /\ UNCHANGED <<clock, running, ent, th, workers, held, delRaced, deleted>>

\* Mutant of Effective: an idle loop wakes up at once instead of in ten years.
EffectiveNow(c) ==
    IF Len(entries[c]) = 0 \/ ent[entries[c][1]].Next = ZeroTime
    THEN loop[c].now
    ELSE ent[entries[c][1]].Next

\* The wake-up instant: the head's Next, or ten years ahead when the list is
\* empty or its head never fires.
Effective(c) ==
    IF Len(entries[c]) = 0 \/ ent[entries[c][1]].Next = ZeroTime
    THEN loop[c].now + TenYears
    ELSE ent[entries[c][1]].Next

\* effective is computed and the select is entered: time.After starts a
\* timer of effective.Sub(now), which a non-positive duration fires at once.
RunEffective(c) ==
    /\ loop[c].pc = "effective"
    /\ loop' = [loop EXCEPT ![c].pc = "select",
                            ![c].effective = Effective(c),
                            ![c].timerAt =
                                clock + Max(0, Effective(c) - loop[c].now)]
    /\ UNCHANGED <<clock, running, entries, ent, th, workers, held,
                   delRaced, deleted>>

\* case now = <-time.After(...): the timer fired at some instant between
\* its deadline and the present; the range over c.entries begins.
RunTimer(c) ==
    /\ loop[c].pc = "select"
    /\ clock >= loop[c].timerAt
    /\ \E fired \in loop[c].timerAt..clock :
          loop' = [loop EXCEPT ![c].pc = "range", ![c].now = fired,
                               ![c].iter = entries[c], ![c].idx = 1]
    /\ UNCHANGED <<clock, running, entries, ent, th, workers, held,
                   delRaced, deleted>>

\* Mutant of RunDispatch: the fired entry keeps its Next.
RunDispatchNoAdvance(c) ==
    /\ loop[c].pc = "range"
    /\ IF /\ loop[c].idx <= Len(loop[c].iter)
          /\ ent[loop[c].iter[loop[c].idx]].Next = loop[c].effective
       THEN LET e == loop[c].iter[loop[c].idx]
            IN /\ ent' = [ent EXCEPT ![e].Prev = ent[e].Next]
               /\ workers' = Append(workers,
                     [cron |-> c, e |-> e, effective |-> loop[c].effective,
                      stage |-> "new", outcome |-> "none", locked |-> FALSE,
                      errorsHandler |-> 0, etcdErrorsHandler |-> 0])
               /\ loop' = [loop EXCEPT ![c].idx = @ + 1]
       ELSE /\ loop' = [loop EXCEPT ![c].pc = "sort", ![c].iter = <<>>,
                                    ![c].idx = 0]
            /\ UNCHANGED <<ent, workers>>
    /\ UNCHANGED <<clock, running, entries, th, held, delRaced, deleted>>

\* One turn of the range: break at the first entry whose Next differs from
\* effective; otherwise move Prev and Next and start the firing worker.
RunDispatch(c) ==
    /\ loop[c].pc = "range"
    /\ IF /\ loop[c].idx <= Len(loop[c].iter)
          /\ ent[loop[c].iter[loop[c].idx]].Next = loop[c].effective
       THEN LET e == loop[c].iter[loop[c].idx]
            IN /\ ent' = [ent EXCEPT
                            ![e].Prev = ent[e].Next,
                            ![e].Next = ScheduleNext(ent[e].Sched,
                                                     loop[c].effective)]
               /\ workers' = Append(workers,
                     [cron |-> c, e |-> e, effective |-> loop[c].effective,
                      stage |-> "new", outcome |-> "none", locked |-> FALSE,
                      errorsHandler |-> 0, etcdErrorsHandler |-> 0])
               /\ loop' = [loop EXCEPT ![c].idx = @ + 1]
       ELSE /\ loop' = [loop EXCEPT ![c].pc = "sort", ![c].iter = <<>>,
                                    ![c].idx = 0]
            /\ UNCHANGED <<ent, workers>>
    /\ UNCHANGED <<clock, running, entries, th, held, delRaced, deleted>>

\* case newEntry := <-c.add: the send of thread t is received and c.entries
\* is read for the append.
RunAdd(c, t) ==
    /\ loop[c].pc = "select"
    /\ th[t].pc = "add" /\ th[t].cron = c
    /\ loop' = [loop EXCEPT ![c].pc = "append", ![c].newEntry = th[t].e,
                            ![c].iter = entries[c]]
    /\ th' = [th EXCEPT ![t] = IdleThread]
    /\ UNCHANGED <<clock, running, entries, ent, workers, held,
                   delRaced, deleted>>

\* c.entries = append(...) is written, newEntry.Next is computed from the
\* loop's now, and now is refreshed from the clock.
RunAppend(c) ==
    /\ loop[c].pc = "append"
    /\ entries' = [entries EXCEPT ![c] = Append(loop[c].iter, loop[c].newEntry)]
    /\ ent' = [ent EXCEPT
                 ![loop[c].newEntry].Next =
                     ScheduleNext(ent[loop[c].newEntry].Sched, loop[c].now),
                 ![loop[c].newEntry].phase = "running"]
    /\ loop' = [loop EXCEPT ![c].pc = "sort", ![c].now = clock,
                            ![c].iter = <<>>, ![c].newEntry = 0]
    /\ UNCHANGED <<clock, running, th, workers, held, delRaced, deleted>>

\* case <-c.snapshot: the nil of thread t is received and the copy is made.
RunSnapshot(c, t) ==
    /\ loop[c].pc = "select"
    /\ th[t].pc = "snapshot" /\ th[t].cron = c
    /\ loop' = [loop EXCEPT ![c].pc = "reply", ![c].snap = entrySnapshot(c)]
    /\ th' = [th EXCEPT ![t].pc = "receive"]
    /\ UNCHANGED <<clock, running, entries, ent, workers, held,
                   delRaced, deleted>>

\* c.snapshot <- c.entrySnapshot() is received by a thread waiting in
\* x := <-c.snapshot; now is refreshed from the clock.
RunReply(c, t) ==
    /\ loop[c].pc = "reply"
    /\ th[t].pc = "receive" /\ th[t].cron = c
    /\ th' = [th EXCEPT ![t] = [IdleThread EXCEPT !.pc = "got", !.cron = c,
                                                 !.ret = loop[c].snap]]
    /\ loop' = [loop EXCEPT ![c].pc = "sort", ![c].now = clock,
                            ![c].snap = <<>>]
    /\ UNCHANGED <<clock, running, entries, ent, workers, held,
                   delRaced, deleted>>

\* Mutant of RunStop: the stop case cancels the firing workers in flight.
RunStopCancels(c, t) ==
    /\ loop[c].pc = "select"
    /\ th[t].pc = "stop" /\ th[t].cron = c
    /\ loop' = [loop EXCEPT ![c].pc = "exited"]
    /\ th' = [th EXCEPT ![t].pc = "stopped"]
    /\ workers' = [w \in DOMAIN workers |->
                     IF workers[w].cron = c /\ workers[w].stage # "done"
                     THEN [workers[w] EXCEPT !.stage = "done",
                                             !.outcome = "cancelled"]
                     ELSE workers[w]]
    /\ UNCHANGED <<clock, running, entries, ent, held, delRaced, deleted>>

\* Mutant of RunStop: a loop that has ended still receives on c.stop.
RunStopLingering(c, t) ==
    /\ loop[c].pc \in {"select", "exited"}
    /\ th[t].pc = "stop" /\ th[t].cron = c
    /\ loop' = [loop EXCEPT ![c].pc = "exited"]
    /\ th' = [th EXCEPT ![t].pc = "stopped"]
    /\ UNCHANGED <<clock, running, entries, ent, workers, held,
                   delRaced, deleted>>

\* case <-c.stop: return
RunStop(c, t) ==
    /\ loop[c].pc = "select"
    /\ th[t].pc = "stop" /\ th[t].cron = c
    /\ loop' = [loop EXCEPT ![c].pc = "exited"]
    /\ th' = [th EXCEPT ![t].pc = "stopped"]
    /\ UNCHANGED <<clock, running, entries, ent, workers, held,
                   delRaced, deleted>>

\* ------------------------------------------------------- firing worker
\* Mutant of WorkerKey: the key names the instance that computed it.
WorkerKeyLocal(w) ==
    Append(LockKey(ent[workers[w].e].Name, workers[w].effective),
           workers[w].cron)

WorkerKey(w) == LockKey(ent[workers[w].e].Name, workers[w].effective)

\* Mutant of WorkerNewMutex: the error of NewMutex is dropped.
WorkerNewMutexUnreported(w) ==
    /\ workers[w].stage = "new"
    /\ \E ok \in BOOLEAN :
          workers' = [workers EXCEPT ![w] =
              IF ok THEN [@ EXCEPT !.stage = "mutex"]
              ELSE [@ EXCEPT !.stage = "done", !.outcome = "mutexError"]]
    /\ UNCHANGED <<clock, running, entries, ent, loop, th, held,
                   delRaced, deleted>>

\* c.etcdclient.NewMutex(key): the mutex, or an error that goes to the
\* etcd errors handler.
WorkerNewMutex(w) ==
    /\ workers[w].stage = "new"
    /\ \E ok \in BOOLEAN :
          workers' = [workers EXCEPT ![w] =
              IF ok THEN [@ EXCEPT !.stage = "mutex"]
              ELSE [@ EXCEPT !.stage = "done", !.outcome = "mutexError",
                             !.etcdErrorsHandler = @ + 1]]
    /\ UNCHANGED <<clock, running, entries, ent, loop, th, held,
                   delRaced, deleted>>

\* Mutant of WorkerLock: the coordinator grants a key that is already held.
WorkerLockNoExclusion(w) ==
    /\ workers[w].stage = "mutex"
    /\ \E res \in {"granted", "DeadlineExceeded", "error"} :
          /\ res = "DeadlineExceeded" => WorkerKey(w) \in held
          /\ held' = IF res = "granted" THEN held \cup {WorkerKey(w)} ELSE held
          /\ workers' = [workers EXCEPT ![w] =
               CASE res = "granted" ->
                      [@ EXCEPT !.stage = "run", !.locked = TRUE]
                 [] res = "DeadlineExceeded" ->
                      [@ EXCEPT !.stage = "done",
                                !.outcome = "DeadlineExceeded"]
                 [] OTHER ->
                      [@ EXCEPT !.stage = "done", !.outcome = "lockError",
                                !.etcdErrorsHandler = @ + 1]]
    /\ UNCHANGED <<clock, running, entries, ent, loop, th, delRaced, deleted>>

\* Mutant of WorkerLock: the return after a Lock error is missing, so the
\* worker goes on to the job body without the lock.
WorkerLockNoReturn(w) ==
    /\ workers[w].stage = "mutex"
    /\ \E res \in {"granted", "DeadlineExceeded", "error"} :
          /\ res = "granted" => WorkerKey(w) \notin held
          /\ res = "DeadlineExceeded" => WorkerKey(w) \in held
          /\ held' = IF res = "granted" THEN held \cup {WorkerKey(w)} ELSE held
          /\ workers' = [workers EXCEPT ![w] =
               CASE res = "granted" ->
                      [@ EXCEPT !.stage = "run", !.locked = TRUE]
                 [] res = "DeadlineExceeded" ->
                      [@ EXCEPT !.stage = "done",
                                !.outcome = "DeadlineExceeded"]
                 [] OTHER ->
                      [@ EXCEPT !.stage = "run",
                                !.etcdErrorsHandler = @ + 1]]
    /\ UNCHANGED <<clock, running, entries, ent, loop, th, delRaced, deleted>>

\* Mutant of WorkerLock: DeadlineExceeded is reported like any other error.
WorkerLockDeadlineReported(w) ==
    /\ workers[w].stage = "mutex"
    /\ \E res \in {"granted", "DeadlineExceeded", "error"} :
          /\ res = "granted" => WorkerKey(w) \notin held
          /\ res = "DeadlineExceeded" => WorkerKey(w) \in held
          /\ held' = IF res = "granted" THEN held \cup {WorkerKey(w)} ELSE held
          /\ workers' = [workers EXCEPT ![w] =
               CASE res = "granted" ->
                      [@ EXCEPT !.stage = "run", !.locked = TRUE]
                 [] res = "DeadlineExceeded" ->
                      [@ EXCEPT !.stage = "done",
                                !.outcome = "DeadlineExceeded",
                                !.etcdErrorsHandler = @ + 1]
                 [] OTHER ->
                      [@ EXCEPT !.stage = "done", !.outcome = "lockError",
                                !.etcdErrorsHandler = @ + 1]]
    /\ UNCHANGED <<clock, running, entries, ent, loop, th, delRaced, deleted>>

\* m.Lock(lockCtx) under the one-second deadline: the key is granted when
\* nobody holds it; while another worker holds it the deadline passes and
\* DeadlineExceeded ends the worker silently; any other error goes to the
\* etcd errors handler.
WorkerLock(w) ==
    /\ workers[w].stage = "mutex"
    /\ \E res \in {"granted", "DeadlineExceeded", "error"} :
          /\ res = "granted" => WorkerKey(w) \notin held
          /\ res = "DeadlineExceeded" => WorkerKey(w) \in held
          /\ held' = IF res = "granted" THEN held \cup {WorkerKey(w)} ELSE held
          /\ workers' = [workers EXCEPT ![w] =
               CASE res = "granted" ->
                      [@ EXCEPT !.stage = "run", !.locked = TRUE]
                 [] res = "DeadlineExceeded" ->
                      [@ EXCEPT !.stage = "done",
                                !.outcome = "DeadlineExceeded"]
                 [] OTHER ->
                      [@ EXCEPT !.stage = "done", !.outcome = "lockError",
                                !.etcdErrorsHandler = @ + 1]]
    /\ UNCHANGED <<clock, running, entries, ent, loop, th, delRaced, deleted>>

\* Mutant of WorkerRun: the deferred recover swallows the panic.
WorkerRunSilentPanic(w) ==
    /\ workers[w].stage = "run"
    /\ \E res \in {"nil", "error", "panic"} :
          workers' = [workers EXCEPT ![w] =
              [@ EXCEPT !.stage = "done", !.outcome = res,
                        !.errorsHandler = IF res = "error" THEN @ + 1 ELSE @]]
    /\ UNCHANGED <<clock, running, entries, ent, loop, th, held,
                   delRaced, deleted>>

\* Mutant of WorkerRun: the error of the job goes to the etcd errors handler.
WorkerRunWrongHandler(w) ==
    /\ workers[w].stage = "run"
    /\ \E res \in {"nil", "error", "panic"} :
          workers' = [workers EXCEPT ![w] =
              [@ EXCEPT !.stage = "done", !.outcome = res,
                        !.errorsHandler = IF res = "panic" THEN @ + 1 ELSE @,
                        !.etcdErrorsHandler =
                            IF res = "error" THEN @ + 1 ELSE @]]
    /\ UNCHANGED <<clock, running, entries, ent, loop, th, held,
                   delRaced, deleted>>

\* Mutant of WorkerRun: the worker unlocks its key when the job body ends.
WorkerRunUnlock(w) ==
    /\ workers[w].stage = "run"
    /\ \E res \in {"nil", "error", "panic"} :
          workers' = [workers EXCEPT ![w] =
              [@ EXCEPT !.stage = "done", !.outcome = res,
                        !.errorsHandler = IF res = "nil" THEN @ ELSE @ + 1]]
    /\ held' = held \ {WorkerKey(w)}
    /\ UNCHANGED <<clock, running, entries, ent, loop, th,
                   delRaced, deleted>>

\* e.Job.Run(ctx): nil, an error for the errors handler, or a panic that the
\* deferred recover turns into an error for the errors handler.
WorkerRun(w) ==
    /\ workers[w].stage = "run"
    /\ \E res \in {"nil", "error", "panic"} :
          workers' = [workers EXCEPT ![w] =
              [@ EXCEPT !.stage = "done", !.outcome = res,
                        !.errorsHandler = IF res = "nil" THEN @ ELSE @ + 1]]
    /\ UNCHANGED <<clock, running, entries, ent, loop, th, held,
                   delRaced, deleted>>

\* ------------------------------------------------------- specifications
\* The steps of the loop of Cron c that involve no caller.
Run(c) ==
    \/ RunInit(c)
    \/ RunSort(c)
    \/ RunEffective(c)
    \/ RunTimer(c)
    \/ RunDispatch(c)
    \/ RunAppend(c)

\* The calls of the one caller of Cron 1 and the rendezvous of the loop
\* with it.
Calls ==
    \/ \E sched \in Scheds : Schedule(1, 1, NameAB, sched, MaxEntries)
    \/ ScheduleAppend(1, 1)
    \/ Start(1, 1)
    \/ Stop(1, 1)
    \/ StopReturn(1, 1)
    \/ Entries(1, 1)
    \/ EntriesUse(1, 1)
    \/ RunAdd(1, 1)
    \/ RunSnapshot(1, 1)
    \/ RunReply(1, 1)
    \/ RunStop(1, 1)

\* One Cron and one caller that registers entries, starts and stops the
\* loop and asks for snapshots.  The firing workers are started and left
\* alone: no step of a worker reads or writes what the loop and the callers
\* read.
Next ==
    \/ Tick(MaxTime)
    \/ Calls
    \/ Run(1)

Spec == Init /\ [][Next]_vars

\* The same Cron and caller with a loop that is scheduled promptly, for what
\* must eventually happen.  Every step the loop or a call in progress can
\* take is eventually taken; the select chooses among its ready cases at
\* random, so a case that is ready again and again is eventually chosen;
\* the caller is free to make no further call.
NextLive ==
    \/ TickPrompt(MaxTime)
    \/ Calls
    \/ Run(1)

Fairness ==
    /\ SF_vars(TickPrompt(MaxTime))
    /\ WF_vars(RunInit(1))
    /\ WF_vars(RunSort(1))
    /\ WF_vars(RunEffective(1))
    /\ SF_vars(RunTimer(1))
    /\ WF_vars(RunDispatch(1))
    /\ WF_vars(RunAppend(1))
    /\ SF_vars(RunAdd(1, 1))
    /\ SF_vars(RunSnapshot(1, 1))
    /\ WF_vars(RunReply(1, 1))
    /\ SF_vars(RunStop(1, 1))
    /\ WF_vars(ScheduleAppend(1, 1))
    /\ WF_vars(StopReturn(1, 1))

SpecLive == Init /\ [][NextLive]_vars /\ Fairness

\* One Cron and one caller that registers and deletes entries while the
\* loop runs.
NextDelete ==
    \/ Tick(MaxRaceTime)
    \/ \E name \in Names, sched \in {"sec", "never"} :
          Schedule(1, 1, name, sched, MaxRaceEntries)
    \/ ScheduleAppend(1, 1)
    \/ \E name \in Names : DeleteJob(1, 1, name)
    \/ DeleteJobAssign(1, 1)
    \/ Start(1, 1)
    \/ RunAdd(1, 1)
    \/ Run(1)

SpecDelete == Init /\ [][NextDelete]_vars

\* The steps of a firing worker: the coordinator may fail, the job body may
\* fail or panic.
Worker(w) ==
    \/ WorkerNewMutex(w)
    \/ WorkerLock(w)
    \/ WorkerRun(w)

\* One Cron, its caller and its firing workers.
NextFire ==
    \/ Tick(MaxTime)
    \/ \E name \in Names : Schedule(1, 1, name, "sec", MaxEntries)
    \/ ScheduleAppend(1, 1)
    \/ Start(1, 1)
    \/ RunAdd(1, 1)
    \/ Run(1)
    \/ \E w \in DOMAIN workers : Worker(w)

SpecFire == Init /\ [][NextFire]_vars

\* A cohort: every Cron has its own caller, which registers entries and
\* starts the loop; the workers of all Crons take the locks of one
\* coordinator.
NextCohort ==
    \/ Tick(MaxCohortTime)
    \/ \E c \in Crons :
          \/ \E name \in Names : Schedule(c, c, name, "sec", MaxCohortEntries)
          \/ ScheduleAppend(c, c)
          \/ Start(c, c)
          \/ RunAdd(c, c)
          \/ Run(c)
    \/ \E w \in DOMAIN workers : Worker(w)

SpecCohort == Init /\ [][NextCohort]_vars

\* A cohort seen up to the dispatch of its firings: every Cron has its own
\* caller, which registers entries of one job name on either schedule
\* before or after it starts the loop.  The key of a firing is fixed when
\* the firing is dispatched.
NextKeys ==
    \/ Tick(MaxTime)
    \/ \E c \in Crons :
          \/ \E sched \in {"sec", "even"} :
                Schedule(c, c, NameAB, sched, MaxKeyEntries)
          \/ ScheduleAppend(c, c)
          \/ Start(c, c)
          \/ RunAdd(c, c)
          \/ Run(c)

SpecKeys == Init /\ [][NextKeys]_vars

\* One Cron with its firing workers and a caller that registers entries,
\* starts the loop and stops it.  Every firing goroutine that can take a
\* step eventually takes one: the Go scheduler starves no goroutine.
MaxStopWorkers == MaxStopEntries * MaxTime

NextStop ==
    \/ Tick(MaxTime)
    \/ Schedule(1, 1, NameAB, "sec", MaxStopEntries)
    \/ ScheduleAppend(1, 1)
    \/ Start(1, 1)
    \/ Stop(1, 1)
    \/ StopReturn(1, 1)
    \/ RunAdd(1, 1)
    \/ RunStop(1, 1)
    \/ Run(1)
    \/ \E w \in DOMAIN workers : Worker(w)

WorkerFairness ==
    \A w \in 1..MaxStopWorkers :
        WF_vars(w \in DOMAIN workers /\ Worker(w))

SpecStop == Init /\ [][NextStop]_vars /\ WorkerFairness

\* One Cron and two callers, each of which registers entries, starts and
\* stops the loop and asks for snapshots, at any time.  The loop takes
\* every step it can and its select chooses among its ready cases at
\* random; a caller that can return does.
NextCallers ==
    \/ Tick(MaxCallTime)
    \/ \E t \in Threads :
          \/ Schedule(1, t, NameAB, "sec", MaxCallEntries)
          \/ ScheduleAppend(1, t)
          \/ Start(1, t)
          \/ Stop(1, t)
          \/ StopReturn(1, t)
          \/ Entries(1, t)
          \/ EntriesUse(1, t)
          \/ \E u \in Threads : EntriesTakeNil(1, t, u)
          \/ RunAdd(1, t)
          \/ RunSnapshot(1, t)
          \/ RunReply(1, t)
          \/ RunStop(1, t)
    \/ Run(1)

FairnessCallers ==
    /\ WF_vars(RunInit(1))
    /\ WF_vars(RunSort(1))
    /\ WF_vars(RunEffective(1))
    /\ WF_vars(RunDispatch(1))
    /\ WF_vars(RunAppend(1))
    /\ \A t \in Threads :
          /\ SF_vars(RunAdd(1, t))
          /\ SF_vars(RunSnapshot(1, t))
          /\ SF_vars(RunStop(1, t))
          /\ WF_vars(RunReply(1, t))
          /\ WF_vars(ScheduleAppend(1, t))
          /\ WF_vars(StopReturn(1, t))
          /\ WF_vars(EntriesUse(1, t))
          /\ \A u \in Threads : WF_vars(EntriesTakeNil(1, t, u))

SpecCallers == Init /\ [][NextCallers]_vars /\ FairnessCallers

\* ------------------------------------------------------------- the claims
\* The workers started for one lock key, in the whole cohort.
WorkersOf(key) == {w \in DOMAIN workers : WorkerKey(w) = key}

DispatchedKeys == {WorkerKey(w) : w \in DOMAIN workers}

\* The job body of worker w was invoked, or is about to be: Lock returned nil.
Invoked(w) ==
    \/ workers[w].stage = "run"
    \/ workers[w].outcome \in {"nil", "error", "panic"}

\* The coordinator failed worker w: NewMutex or Lock returned an error.
CoordinatorFailed(w) == workers[w].outcome \in {"mutexError", "lockError"}

Settled(key) == \A w \in WorkersOf(key) : workers[w].stage = "done"

\* C1: with the coordinator available, every firing instant of a job that
\* the cohort dispatched is executed exactly once: when all workers started
\* for a lock key have ended and none met a coordinator error, exactly one
\* of them invoked the job body (so K dispatched instants give K invocations).
C1_ExactlyOnePerFiring ==
    \A key \in DispatchedKeys :
        (Settled(key) /\ \A w \in WorkersOf(key) : ~CoordinatorFailed(w))
            => Cardinality({w \in WorkersOf(key) : Invoked(w)}) = 1

\* Two Crons dispatched the same firing, all its workers ended without a
\* coordinator error.
C1_Witness ==
    \E key \in DispatchedKeys :
        /\ Settled(key)
        /\ \A w \in WorkersOf(key) : ~CoordinatorFailed(w)
        /\ \E v, w \in WorkersOf(key) :
              /\ workers[v].cron # workers[w].cron
              /\ workers[v].outcome = "nil"
              /\ workers[w].outcome = "DeadlineExceeded"

\* C2: whatever the coordinator does, no lock key has more than one
\* invocation of the job body in the cohort, and a worker reaches the job
\* body only while holding the lock it took itself.
C2_AtMostOncePerFiring ==
    /\ \A key \in DispatchedKeys :
          Cardinality({w \in WorkersOf(key) : Invoked(w)}) <= 1
    /\ \A w \in DOMAIN workers :
          Invoked(w) => workers[w].locked /\ WorkerKey(w) \in held

\* A firing for which the coordinator failed every worker: it was missed,
\* not run twice.
C2_Witness ==
    \E key \in DispatchedKeys :
        /\ Settled(key)
        /\ Cardinality(WorkersOf(key)) >= 2
        /\ \A w \in WorkersOf(key) : CoordinatorFailed(w)
        /\ \E v, w \in WorkersOf(key) :
              /\ workers[v].outcome = "mutexError"
              /\ workers[w].outcome = "lockError"

\* Stop() has returned on Cron c: the loop took the stop request and the
\* caller is past c.running = false.
StopReturned(c) ==
    /\ loop[c].pc = "exited"
    /\ \A t \in Threads : ~(th[t].pc = "stopped" /\ th[t].cron = c)

\* C3: after Start(ctx); Stop(), adding a job never fires it: the call does
\* not wait on the add channel, no firing worker is started any more, and
\* an entry added then has no worker and keeps its zero Next.
C3_NoFiringAfterStop ==
    /\ [](\A e \in DOMAIN ent :
             ent[e].phase = "stopped" =>
                 /\ ent[e].Next = ZeroTime
                 /\ \A w \in DOMAIN workers : workers[w].e # e)
    /\ [][StopReturned(1) =>
             /\ StopReturned(1)'
             /\ workers' = workers
             /\ \A t \in Threads : th'[t].pc # "add"]_vars

\* Start, Stop, then a Schedule that has returned with its entry on the list.
C3_Witness ==
    /\ StopReturned(1)
    /\ th[1].pc = "idle"
    /\ \E e \in Range(entries[1]) : ent[e].phase = "stopped"

\* Stop() has been called on Cron c.
StopCalled(c) ==
    \/ loop[c].pc = "exited"
    \/ \E t \in Threads : th[t].cron = c /\ th[t].pc \in {"stop", "stopped"}

\* Entry e was registered before Start, is on the list of the started loop
\* and is due at instant n.
PrestartDueAt(e, n) ==
    /\ e \in DOMAIN ent
    /\ ent[e].phase = "prestart"
    /\ e \in Range(entries[1])
    /\ loop[1].pc \notin {"off", "init"}
    /\ ent[e].Next = n

FiredAt(e, n) ==
    \E w \in DOMAIN workers : workers[w].e = e /\ workers[w].effective = n

\* C4: until the loop starts every entry has zero Next and Prev; the start
\* of the loop gives every entry registered before Start the Next of its
\* schedule after the clock, which is non-zero and later than the clock when
\* the schedule is satisfiable; and unless Stop is called a firing worker is
\* eventually spawned for the entry at that instant.
C4_PrestartEntriesFire ==
    /\ [](loop[1].pc \in {"off", "init"} =>
            \A e \in DOMAIN ent :
                ent[e].Next = ZeroTime /\ ent[e].Prev = ZeroTime)
    /\ [][(loop[1].pc = "init" /\ loop'[1].pc # "init") =>
            \A e \in Range(entries[1]) :
                /\ ent'[e].Next = ScheduleNext(ent[e].Sched, clock)
                /\ ent[e].Sched # "never" => ent'[e].Next > clock
                /\ ent'[e].Prev = ZeroTime]_vars
    /\ \A e \in 1..MaxEntries : \A n \in 1..MaxTime :
          PrestartDueAt(e, n) ~> (FiredAt(e, n) \/ StopCalled(1))

\* An entry registered before Start has been fired at the first instant of
\* its schedule after the start of the loop, and Stop was never called.
C4_Witness ==
    /\ ~StopCalled(1)
    /\ \E e \in Range(entries[1]) :
          /\ ent[e].phase = "prestart"
          /\ ent[e].Prev # ZeroTime
          /\ FiredAt(e, ent[e].Prev)

\* C5: an entry that the running loop accepted on the add channel and that
\* was not deleted is on the entry list, and the wake-up instant the loop
\* waits for was computed with it: it is no later than the entry's Next.
C5_AddedEntryListed ==
    \A e \in DOMAIN ent :
        (ent[e].phase = "running" /\ e \notin deleted) =>
            /\ e \in Range(entries[1])
            /\ (loop[1].pc = "select" /\ ent[e].Next # ZeroTime) =>
                   loop[1].effective <= ent[e].Next

\* The list s is ordered by Next ascending, every zero Next after every
\* non-zero Next.  next(i) is the Next of the i-th element.
IsSorted(n, next(_)) ==
    \A i \in 1..n : \A j \in 1..n :
        i < j =>
            /\ next(i) = ZeroTime => next(j) = ZeroTime
            /\ (next(i) # ZeroTime /\ next(j) # ZeroTime) => next(i) <= next(j)

\* C6: while the running loop waits in its select the entry list is ordered
\* by Next ascending with the zero Next last, and so is every snapshot the
\* loop hands to Entries().
C6_SortedWhileWaiting ==
    /\ loop[1].pc = "select" =>
           LET next(i) == ent[entries[1][i]].Next
           IN IsSorted(Len(entries[1]), next)
    /\ loop[1].pc = "reply" =>
           LET next(i) == loop[1].snap[i].Next
           IN IsSorted(Len(loop[1].snap), next)

\* After a timer firing, a snapshot whose order differs from the order of
\* registration: the never-firing entry registered first comes last.
C6_Witness ==
    /\ loop[1].pc = "reply"
    /\ workers # <<>>
    /\ Len(loop[1].snap) = 2
    /\ loop[1].snap[1].id > loop[1].snap[2].id
    /\ loop[1].snap[1].Next # ZeroTime
    /\ loop[1].snap[2].Next = ZeroTime

\* C7: a worker is started only for an entry whose Next equals effective,
\* with that effective in its key and once per entry and instant; and when
\* the range of a timer firing ends, no entry of the list is left with a
\* Next equal to effective.
C7_AllDueDispatched ==
    /\ [][Len(workers') > Len(workers) =>
            /\ Len(workers') = Len(workers) + 1
            /\ LET w == workers'[Len(workers')]
               IN /\ ent[w.e].Next = loop[1].effective
                  /\ w.effective = loop[1].effective
                  /\ \A v \in DOMAIN workers :
                        ~(workers[v].e = w.e
                          /\ workers[v].effective = w.effective)]_vars
    /\ [][(loop[1].pc = "range" /\ loop'[1].pc = "sort") =>
            \A e \in Range(entries'[1]) :
                ent'[e].Next # loop[1].effective]_vars

\* A step in which the job body of worker w panics.
PanicStep(w) ==
    /\ workers[w].outcome # "panic"
    /\ workers'[w].outcome = "panic"

\* C8: a firing whose job body panicked has had exactly one call of the
\* errors handler and none of the etcd errors handler, and the panic leaves
\* the loop, the entry list, the entries and the other workers as they were.
C8_PanicIsolated ==
    /\ [](\A w \in DOMAIN workers :
             workers[w].outcome = "panic" =>
                 /\ workers[w].errorsHandler = 1
                 /\ workers[w].etcdErrorsHandler = 0)
    /\ [][\A w \in DOMAIN workers :
             PanicStep(w) =>
                 /\ UNCHANGED <<clock, running, entries, ent, loop, th>>
                 /\ Len(workers') = Len(workers)
                 /\ \A v \in DOMAIN workers :
                       v # w => workers'[v] = workers[v]]_vars

\* After a panic of its job body the same entry was fired again at a later
\* instant, and the loop is still running.
C8_Witness ==
    /\ loop[1].pc \notin {"off", "exited"}
    /\ \E w \in DOMAIN workers : \E v \in DOMAIN workers :
          /\ workers[w].outcome = "panic"
          /\ v > w
          /\ workers[v].e = workers[w].e
          /\ workers[v].effective > workers[w].effective

\* A step in which DeleteJob finished reading the list and found the name.
DeleteScanStep == th[1].pc = "idle" /\ th'[1].pc = "delete"

\* A step in which DeleteJob writes c.entries and returns nil.
DeleteAssignStep == th[1].pc = "delete" /\ th'[1].pc = "idle"

RECURSIVE RemoveFirst(_, _)
RemoveFirst(s, name) ==
    IF s = <<>> THEN <<>>
    ELSE IF ent[Head(s)].Name = name THEN Tail(s)
         ELSE <<Head(s)>> \o RemoveFirst(Tail(s), name)

\* C9 as stated: DeleteJob(name) drops the first entry of the name only and
\* keeps every other entry, those of the same name included, in order.
C9_RemovesFirstMatchOnly ==
    [][DeleteScanStep =>
          th'[1].updatedEntries = RemoveFirst(entries[1], th'[1].name)]_vars

\* C9 amended: DeleteJob(name) replaces the list by the entries it read
\* whose name differs from name, in the order read: every entry of that name
\* is removed, not only the first.
C9_RemovesEveryMatch ==
    /\ [][DeleteScanStep =>
            LET keep(e) == ent[e].Name # th'[1].name
            IN /\ th'[1].updatedEntries = SelectSeq(entries[1], keep)
               /\ th'[1].removed =
                     {e \in Range(entries[1]) : ent[e].Name = th'[1].name}
               /\ th'[1].removed # {}]_vars
    /\ [][DeleteAssignStep =>
            /\ entries'[1] = th[1].updatedEntries
            /\ \A e \in Range(entries'[1]) : ent[e].Name # th[1].name]_vars

\* DeleteJob has read a list with two entries of the name and an entry of
\* another name.
C9_Witness ==
    /\ th[1].pc = "delete"
    /\ Cardinality(th[1].removed) >= 2
    /\ th[1].updatedEntries # <<>>

\* C10: an entry whose DeleteJob has returned nil is on no list that a later
\* Entries() can copy, and no firing worker is started for it any more.
C10_DeletedStaysDeleted ==
    /\ [](loop[1].pc \in {"off", "select", "exited"} =>
             \A e \in deleted : e \notin Range(entries[1]))
    /\ [][\A w \in DOMAIN workers' :
             w \notin DOMAIN workers => workers'[w].e \notin deleted]_vars

\* C11: Stop() on a Cron that was never started returns to its caller with
\* running false, and leaves the entry list as it was.
C11_StopUnstartedReturns ==
    /\ (loop[1].pc = "off" /\ th[1].pc = "stop")
          ~> (th[1].pc = "idle" /\ ~running[1])
    /\ [][(loop[1].pc = "off" /\ th[1].pc \in {"stop", "stopped"}) =>
             entries' = entries]_vars

\* Every entry ever registered has a schedule that never fires.
NothingToFire == \A e \in DOMAIN ent : ent[e].Sched = "never"

\* C12: with no entry, or only never-firing entries, no firing worker is
\* ever started, the started loop waits for a timer beyond every instant
\* of the model, and a Stop() issued to the started loop is received: the
\* loop ends and Stop() returns with running false.
C12_IdleLoopStops ==
    /\ [](NothingToFire =>
            /\ workers = <<>>
            /\ loop[1].pc = "select" => loop[1].timerAt > MaxTime)
    /\ (NothingToFire /\ th[1].pc = "stop" /\ LoopActive(1))
          ~> (loop[1].pc = "exited" /\ th[1].pc = "idle" /\ ~running[1])

\* Start and Stop have both returned on a Cron holding a never-firing
\* entry; time has passed and nothing was fired.
C12_Witness ==
    /\ NothingToFire
    /\ entries[1] # <<>>
    /\ loop[1].pc = "exited"
    /\ th[1].pc = "idle"
    /\ ~running[1]
    /\ clock > 1
    /\ workers = <<>>

\* The loop receives a snapshot request, or hands the snapshot over.
SnapshotStep ==
    \/ loop[1].pc = "select" /\ loop'[1].pc = "reply"
    \/ loop[1].pc = "reply" /\ loop'[1].pc = "sort"

\* C13: serving a snapshot request changes neither the entry list nor any
\* entry nor the firings started; the snapshot holds, in list order, an
\* Entry of its own for every entry with the entry's Next and Prev, so that
\* the caller's use of the returned list changes no entry; and an entry
\* that was due at instant n when the snapshot was made is still fired at n
\* unless Stop is called.
C13_SnapshotFrame ==
    /\ [][SnapshotStep =>
             /\ entries' = entries
             /\ ent' = ent
             /\ workers' = workers]_vars
    /\ [](loop[1].pc = "reply" =>
             /\ Len(loop[1].snap) = Len(entries[1])
             /\ \A i \in 1..Len(entries[1]) :
                   /\ loop[1].snap[i].id = entries[1][i]
                   /\ loop[1].snap[i].Next = ent[entries[1][i]].Next
                   /\ loop[1].snap[i].Prev = ent[entries[1][i]].Prev
                   /\ ~loop[1].snap[i].shared)
    /\ [][(th[1].pc = "got" /\ th'[1].pc = "idle") =>
             /\ entries' = entries
             /\ ent' = ent]_vars
    /\ \A e \in 1..MaxEntries : \A n \in 1..MaxTime :
          (/\ loop[1].pc = "reply"
           /\ e \in Range(entries[1])
           /\ ent[e].Next = n)
             ~> (FiredAt(e, n) \/ StopCalled(1))

\* The caller holds a snapshot of the running loop in which an entry is due
\* at an instant, and that firing has been dispatched since, at that instant.
C13_Witness ==
    /\ th[1].pc = "got"
    /\ ~StopCalled(1)
    /\ LoopActive(1)
    /\ \E i \in 1..Len(th[1].ret) :
          /\ th[1].ret[i].Next # ZeroTime
          /\ th[1].ret[i].Prev # ZeroTime
          /\ FiredAt(th[1].ret[i].id, th[1].ret[i].Next)

\* A worker that has ended stays as it ended.
EndedStaysEnded ==
    [][\A w \in DOMAIN workers :
          workers[w].stage = "done" => workers'[w] = workers[w]]_vars

\* C14: a worker whose Lock ended with DeadlineExceeded has ended without
\* the lock, without running the job body and without a call of either
\* handler, and nothing more happens in it.
C14_DeadlineExceededSilent ==
    /\ [](\A w \in DOMAIN workers :
             workers[w].outcome = "DeadlineExceeded" =>
                 /\ workers[w].stage = "done"
                 /\ ~workers[w].locked
                 /\ workers[w].errorsHandler = 0
                 /\ workers[w].etcdErrorsHandler = 0)
    /\ EndedStaysEnded

\* A worker ended with DeadlineExceeded on a key that a worker of the other
\* Cron holds.
C14_Witness ==
    \E w \in DOMAIN workers : \E v \in DOMAIN workers :
        /\ workers[w].outcome = "DeadlineExceeded"
        /\ workers[v].cron # workers[w].cron
        /\ workers[v].locked
        /\ WorkerKey(v) = WorkerKey(w)

\* C15: a worker whose NewMutex or Lock failed (other than by
\* DeadlineExceeded) has ended with exactly one call of the etcd errors
\* handler, none of the errors handler, without the lock and the job body;
\* nothing more happens in it, its failure changes no entry, and its Cron
\* starts no second worker for the same entry and instant.
C15_CoordinatorErrorReported ==
    /\ [](\A w \in DOMAIN workers :
             CoordinatorFailed(w) =>
                 /\ workers[w].stage = "done"
                 /\ ~workers[w].locked
                 /\ workers[w].etcdErrorsHandler = 1
                 /\ workers[w].errorsHandler = 0
                 /\ \A v \in DOMAIN workers :
                       (/\ v # w
                        /\ workers[v].cron = workers[w].cron
                        /\ workers[v].e = workers[w].e)
                           => workers[v].effective # workers[w].effective)
    /\ EndedStaysEnded
    /\ [][\A w \in DOMAIN workers :
             (~CoordinatorFailed(w) /\ workers'[w].outcome
                  \in {"mutexError", "lockError"}) => ent' = ent]_vars

\* After a failed NewMutex and a failed Lock on two firings, the entry of
\* the first was fired again at its next instant.
C15_Witness ==
    \E w \in DOMAIN workers : \E v \in DOMAIN workers :
        \E u \in DOMAIN workers :
            /\ workers[w].outcome = "mutexError"
            /\ workers[u].outcome = "lockError"
            /\ workers[v].e = workers[w].e
            /\ workers[v].effective = workers[w].effective + 1
            /\ ent[workers[w].e].Next > workers[v].effective

\* C16: a worker whose job body returned an error held the lock and has had
\* exactly one call of the errors handler and none of the etcd errors
\* handler; a worker whose job body returned nil has had no handler call.
C16_JobErrorReported ==
    \A w \in DOMAIN workers :
        /\ workers[w].outcome = "error" =>
              /\ workers[w].locked
              /\ workers[w].errorsHandler = 1
              /\ workers[w].etcdErrorsHandler = 0
        /\ workers[w].outcome = "nil" =>
              /\ workers[w].locked
              /\ workers[w].errorsHandler = 0
              /\ workers[w].etcdErrorsHandler = 0

\* One firing ended with an error of the job body and another with nil.
C16_Witness ==
    \E w \in DOMAIN workers : \E v \in DOMAIN workers :
        /\ workers[w].outcome = "error" /\ workers[w].stage = "done"
        /\ workers[v].outcome = "nil" /\ workers[v].stage = "done"

\* C17: no step takes a key out of the held keys, a worker that was granted
\* its key sees it held whatever the outcome of its job body, and no second
\* worker is ever granted the key of a firing.
C17_LockNeverReleased ==
    /\ [][held \subseteq held']_vars
    /\ [](\A w \in DOMAIN workers :
             workers[w].locked =>
                 /\ WorkerKey(w) \in held
                 /\ \A v \in DOMAIN workers :
                       (v # w /\ WorkerKey(v) = WorkerKey(w))
                           => ~workers[v].locked)

\* The job body of a firing has ended, its key is still held, and the
\* worker of the other Cron for the same firing comes to its Lock only now.
C17_Witness ==
    \E w \in DOMAIN workers : \E v \in DOMAIN workers :
        /\ workers[w].locked
        /\ workers[w].stage = "done"
        /\ workers[w].outcome \in {"nil", "error", "panic"}
        /\ workers[v].cron # workers[w].cron
        /\ WorkerKey(v) = WorkerKey(w)
        /\ workers[v].stage = "mutex"
        /\ WorkerKey(w) \in held

PlaceOf(e) ==
    LET l == entries[ent[e].cron]
    IN IF e \in Range(l) THEN CHOOSE i \in 1..Len(l) : l[i] = e ELSE 0

\* Entry e was fired before instant n.
FiredBefore(e, n) ==
    \E u \in DOMAIN workers : workers[u].e = e /\ workers[u].effective < n

C19_PrevBeforeNext ==
    /\ [](\A e \in DOMAIN ent :
             (ent[e].Prev # ZeroTime /\ ent[e].Next # ZeroTime)
                 => ent[e].Prev < ent[e].Next)
    /\ [][\A w \in DOMAIN workers' :
             w \notin DOMAIN workers =>
                 /\ \A u \in DOMAIN workers :
                       workers[u].e = workers'[w].e
                           => workers[u].effective < workers'[w].effective
                 /\ ent'[workers'[w].e].Prev = workers'[w].effective]_vars

\* An entry has been fired at two instants and is due at a third.
C19_Witness ==
    \E w \in DOMAIN workers : \E v \in DOMAIN workers :
        /\ workers[w].e = workers[v].e
        /\ workers[w].effective < workers[v].effective
        /\ ent[workers[v].e].Prev = workers[v].effective
        /\ ent[workers[v].e].Next > ent[workers[v].e].Prev

\* A DeleteJob of the name has returned or is about to write the list.
NameDeleted(name) ==
    \/ \E d \in deleted : ent[d].Name = name
    \/ \E t \in Threads : th[t].pc = "delete" /\ th[t].name = name

\* The number of places of the list s that hold entry e.
Occurrences(s, e) == Cardinality({i \in 1..Len(s) : s[i] = e})

\* C20: an entry whose AddJob/Schedule has put it on the list is on the
\* list exactly once as long as no DeleteJob was called for its name.
C20_NoEntryLost ==
    \A e \in DOMAIN ent :
        (ent[e].phase \in {"prestart", "running", "racy", "stopped"}
             /\ ~NameDeleted(ent[e].Name))
            => Occurrences(entries[1], e) = 1

\* C21: a caller of Stop() on a Cron whose loop is not running, because it
\* was never started or because an earlier Stop() ended it, stays at the
\* send on the stop channel in every step, and running is not written.
C21_StopWithoutLoopBlocks ==
    [][(th[1].pc = "stop" /\ ~LoopActive(1)) =>
          /\ th'[1].pc = "stop"
          /\ ~LoopActive(1)'
          /\ running' = running]_vars

\* A second Stop() after a Stop() that returned: the caller is at the send,
\* the loop has ended.
C21_Witness ==
    /\ th[1].pc = "stop"
    /\ loop[1].pc = "exited"
    /\ ~running[1]

\* The canonical name that every job name of the model is to have:
\* "a_b" as it is, and "A-B" lowercased with "-" replaced by "_".
CanonicalAB == <<"a", "_", "b">>

\* C22: the names of the model have one canonical name; two firings at one
\* instant of two entries, of one name or not, in one Cron or in two, have
\* one key, and the job body of at most one of them is run.
C22_SameCanonicalNameOneRun ==
    \A w \in DOMAIN workers : \A v \in DOMAIN workers :
        (/\ w # v
         /\ workers[w].e # workers[v].e
         /\ workers[w].effective = workers[v].effective)
            => /\ canonicalName(ent[workers[w].e].Name) = CanonicalAB
               /\ canonicalName(ent[workers[v].e].Name) = CanonicalAB
               /\ WorkerKey(w) = WorkerKey(v)
               /\ ~(Invoked(w) /\ Invoked(v))

\* Two entries with different names and one canonical name were fired at
\* one instant: one job body ran, the other worker gave up at the lock.
C22_Witness ==
    \E w \in DOMAIN workers : \E v \in DOMAIN workers :
        /\ ent[workers[w].e].Name # ent[workers[v].e].Name
        /\ workers[w].effective = workers[v].effective
        /\ workers[w].outcome = "nil"
        /\ workers[v].outcome = "DeadlineExceeded"

\* Entry e was put on the list by a Schedule call that returned.
Registered(e) == ent[e].phase \in {"prestart", "running"}

\* C23 as stated: once Stop() has returned, no registered entry is returned
\* by Entries(), GetJob or ListJobsByPrefix any more.
C23_EntriesDroppedOnStop ==
    StopReturned(1) =>
        \A e \in DOMAIN ent :
            Registered(e) =>
                /\ \A i \in 1..Len(entrySnapshot(1)) :
                      entrySnapshot(1)[i].id # e
                /\ GetJob(1, ent[e].Name) = 0
                /\ e \notin Range(ListJobsByPrefix(1, <<>>))

\* C23 amended: Stop() does not drop entries.  The loop's stop case and
\* Stop() leave the entry list and the entries as they are, and once Stop()
\* has returned every registered entry is still returned by Entries() and
\* ListJobsByPrefix, and GetJob still finds a job of its name.
C23_EntriesKeptOnStop ==
    /\ [][(th[1].pc \in {"stop", "stopped"} /\ th'[1].pc # th[1].pc) =>
             /\ entries' = entries
             /\ ent' = ent]_vars
    /\ [](StopReturned(1) =>
            \A e \in DOMAIN ent :
                Registered(e) =>
                    /\ \E i \in 1..Len(entrySnapshot(1)) :
                          entrySnapshot(1)[i].id = e
                    /\ GetJob(1, ent[e].Name) # 0
                    /\ ent[GetJob(1, ent[e].Name)].Name = ent[e].Name
                    /\ e \in Range(ListJobsByPrefix(1, <<"a">>)))

\* Stop() has returned and an Entries() call after it has returned the entry
\* registered before Start and the entry added during the run.
C23_Witness ==
    /\ StopReturned(1)
    /\ th[1].pc = "got"
    /\ Len(th[1].ret) = 2
    /\ \E i \in 1..2 : ent[th[1].ret[i].id].phase = "prestart"
    /\ \E i \in 1..2 : ent[th[1].ret[i].id].phase = "running"

\* The ways a firing worker ends by itself.
Outcomes == {"nil", "error", "panic", "DeadlineExceeded",
             "mutexError", "lockError"}

\* C24: once the loop has taken the stop request no firing worker is
\* started; the stop case and Stop() change no worker and no held key; and
\* every firing worker that was started ends by itself, the loop stopped
\* or not.
C24_StopEndsLoopOnly ==
    /\ [][loop[1].pc = "exited" => Len(workers') = Len(workers)]_vars
    /\ [][(th[1].pc \in {"stop", "stopped"} /\ th'[1].pc # th[1].pc) =>
             /\ workers' = workers
             /\ held' = held]_vars
    /\ \A w \in 1..MaxStopWorkers :
          (w \in DOMAIN workers)
             ~> (w \in DOMAIN workers /\ workers[w].stage = "done"
                    /\ workers[w].outcome \in Outcomes)

\* Stop() has returned while a firing worker started before it holds the
\* lock and is about to run the job body.
C24_Witness ==
    /\ StopReturned(1)
    /\ \E w \in DOMAIN workers :
          workers[w].stage = "run" /\ workers[w].locked

\* C25: no call of Entries() returns the nil that another caller sent as
\* its request, and no caller stays for ever at the send or the receive on
\* the snapshot channel while the loop runs.
C25_EveryCallGetsSnapshot ==
    /\ [](\A t \in Threads : th[t].pc # "gotnil")
    /\ \A t \in Threads :
          (th[t].pc \in {"snapshot", "receive"} /\ ~StopCalled(1))
             ~> (th[t].pc \notin {"snapshot", "receive"} \/ StopCalled(1))

\* C26: every caller that waits on the add channel or on the snapshot
\* channel eventually leaves it.
C26_CallsReturn ==
    \A t \in Threads :
        (th[t].pc \in {"add", "snapshot", "receive"})
           ~> (th[t].pc \notin {"add", "snapshot", "receive"})

\* C27: the Next that the loop gives to an entry it accepted on the add
\* channel is later than the clock at that moment, or zero for a schedule
\* that never fires.
C27_AddedNextAfterClock ==
    [][(loop[1].pc = "append" /\ loop'[1].pc = "sort") =>
          \/ ent'[loop[1].newEntry].Next = ZeroTime
          \/ ent'[loop[1].newEntry].Next > clock]_vars

====
